---------------------------- MODULE Spec2Model ----------------------------
(***************************************************************************)
(* Critical Path Method analysis as performed by cpm.py: the rows of the   *)
(* input table are loaded, the successor column is derived, the forward    *)
(* pass fills es_dict/ef_dict, the backward pass fills ls_dict/lf_dict,    *)
(* slack and the Critical flag are derived and the critical path is the    *)
(* list of critical tasks in row order.                                    *)
(*                                                                         *)
(* One step of the model is one evaluation of a `while` condition or one   *)
(* iteration of a `for` loop of the script, so that a loop that never      *)
(* ends in the script is a cycle of states of the model.                   *)
(*                                                                         *)
(* A predecessor field is kept as the set of its tokens: the script only   *)
(* reads the list through all(), max(), its truth value and an iteration   *)
(* that appends to successors_map.                                         *)
(***************************************************************************)
EXTENDS Integers, Sequences, FiniteSets

\* Bounds of the model.
MaxRows == 3
MaxDur == 2
\* Rows of an input that need not be valid (SpecAny, FairAny).
MaxAnyRows == 2

\* Task names are opaque tokens; the script only compares them for equality.
NameOf == <<"A", "B", "C", "D", "E">>
Names == {NameOf[k] : k \in 1..MaxRows}

VARIABLES
    rows,            \* df[["Task", "Duration", "Predecessors"]], one record per row
    Successors,      \* df["Successors"], per row a sequence of task names
    ES, EF, LS, LF,  \* df columns, per row
    Slack, Critical, \* df columns, per row
    pc,              \* position of the script
    remaining,       \* index labels of the rows of `remaining`, ascending
    scan,            \* position of the running `for` loop inside remaining
    es_dict, ef_dict,
    ls_dict, lf_dict,
    project_finish,
    path,            \* critical_tasks of print_critical_path
    iters,           \* history: iterations of the `while` loop begun in this pass
    es_writes,       \* history: per task, assignments es_dict[task] = ... made
    ls_writes        \* history: per task, assignments ls_dict[task] = ... made

vars == <<rows, Successors, ES, EF, LS, LF, Slack, Critical, pc, remaining,
          scan, es_dict, ef_dict, ls_dict, lf_dict, project_finish, path,
          iters, es_writes, ls_writes>>

----------------------------------------------------------------------------
\* Helpers

Max(S) == CHOOSE x \in S : \A y \in S : y <= x
Min(S) == CHOOSE x \in S : \A y \in S : x <= y

Range(s) == {s[k] : k \in DOMAIN s}

\* A Python dict as a function on its keys.
EmptyDict == [k \in {} |-> 0]
Put(d, k, v) == [x \in (DOMAIN d) \cup {k} |-> IF x = k THEN v ELSE d[x]]

\* Mutant of Drop: the result of drop() (which is not in place) is lost.
DropNotKept(s, label) == s

\* DataFrame.drop(label) on the sequence of index labels.
Drop(s, label) == SelectSeq(s, LAMBDA x : x # label)

\* The history counter of loop iterations stops counting at IterCap.
IterCap == MaxRows + 1
Bump(c) == IF c < IterCap THEN c + 1 ELSE c

TaskSet(rs) == {rs[k].Task : k \in DOMAIN rs}

----------------------------------------------------------------------------
\* load_and_prepare_data

\* successors_map[p]: the tasks of the rows that list p, in row order.
RECURSIVE SuccessorsOf(_, _, _)
SuccessorsOf(rs, p, k) ==
    IF k > Len(rs) THEN <<>>
    ELSE (IF p \in rs[k].Predecessors THEN <<rs[k].Task>> ELSE <<>>)
         \o SuccessorsOf(rs, p, k + 1)

SuccessorsColumn(rs) == [k \in DOMAIN rs |-> SuccessorsOf(rs, rs[k].Task, 1)]

ZeroColumn(rs) == [k \in DOMAIN rs |-> 0]

----------------------------------------------------------------------------
\* Inputs

RowRecords == [Task : Names, Duration : 0..MaxDur, Predecessors : SUBSET Names]

AnyInputs == UNION {[1..n -> RowRecords] : n \in 0..MaxAnyRows}

\* The tasks left after repeatedly removing those with no predecessor in S.
RECURSIVE Unresolvable(_, _)
Unresolvable(S, P) ==
    LET free == {a \in S : P[a] \cap S = {}}
    IN IF free = {} THEN S ELSE Unresolvable(S \ free, P)

PredsOfName(rs, a) ==
    UNION {rs[k].Predecessors : k \in {j \in DOMAIN rs : rs[j].Task = a}}

HasCycle(rs) ==
    Unresolvable(TaskSet(rs), [a \in TaskSet(rs) |-> PredsOfName(rs, a)]) # {}

HasDuplicate(rs) == \E j, k \in DOMAIN rs : j # k /\ rs[j].Task = rs[k].Task

HasDangling(rs) == \E k \in DOMAIN rs : ~(rs[k].Predecessors \subseteq TaskSet(rs))

ValidInput(rs) == ~HasDuplicate(rs) /\ ~HasDangling(rs) /\ ~HasCycle(rs)

\* Valid acyclic inputs: row k is named NameOf[k]; the predecessor relation is
\* any acyclic relation on the names, so rows come in every order relative
\* to the precedence (any valid input is one of these up to renaming tasks).
FirstNames(n) == {NameOf[k] : k \in 1..n}

AcyclicPreds(n) ==
    {P \in [FirstNames(n) -> SUBSET FirstNames(n)] :
        Unresolvable(FirstNames(n), P) = {}}

ValidRows(n, d, P) ==
    [k \in 1..n |-> [Task |-> NameOf[k], Duration |-> d[k],
                     Predecessors |-> P[NameOf[k]]]]

----------------------------------------------------------------------------
\* Initial states: the table as read, nothing computed yet.

InitState ==
    /\ Successors = <<>>
    /\ ES = <<>> /\ EF = <<>> /\ LS = <<>> /\ LF = <<>>
    /\ Slack = <<>> /\ Critical = <<>>
    /\ pc = "load"
    /\ remaining = <<>>
    /\ scan = 1
    /\ es_dict = EmptyDict /\ ef_dict = EmptyDict
    /\ ls_dict = EmptyDict /\ lf_dict = EmptyDict
    /\ project_finish = 0
    /\ path = <<>>
    /\ iters = 0
    /\ es_writes = [a \in Names |-> 0]
    /\ ls_writes = [a \in Names |-> 0]

Init ==
    /\ \E n \in 0..MaxRows :
          \E P \in AcyclicPreds(n) :
             \E d \in [1..n -> 0..MaxDur] : rows = ValidRows(n, d, P)
    /\ InitState

InitAny == rows \in AnyInputs /\ InitState

----------------------------------------------------------------------------
\* Actions

Load ==
    /\ pc = "load"
    /\ pc' = "es_ef_init"
    /\ Successors' = SuccessorsColumn(rows)
    /\ ES' = ZeroColumn(rows) /\ EF' = ZeroColumn(rows)
    /\ LS' = ZeroColumn(rows) /\ LF' = ZeroColumn(rows)
    /\ Slack' = ZeroColumn(rows)
    /\ Critical' = [k \in DOMAIN rows |-> FALSE]
    /\ UNCHANGED <<rows, remaining, scan, es_dict, ef_dict, ls_dict, lf_dict,
                   project_finish, path, iters, es_writes, ls_writes>>

----------------------------------------------------------------------------
\* calculate_es_ef

\* all(p in ef_dict for p in row["Predecessors"])
PredecessorsResolved(preds, ef) == preds \subseteq DOMAIN ef

\* Mutant of EarlyStart: min() in place of max().
EarlyStartMin(preds, ef) == IF preds # {} THEN Min({ef[p] : p \in preds}) ELSE 0

\* es = max([ef_dict[p] for p in row["Predecessors"]]) if row["Predecessors"] else 0
EarlyStart(preds, ef) == IF preds # {} THEN Max({ef[p] : p \in preds}) ELSE 0

\* ef = es + row["Duration"]
EarlyFinish(es, duration) == es + duration

\* df["Task"].map(d)
MapColumn(rs, d) == [k \in DOMAIN rs |-> d[rs[k].Task]]

AllLabels(rs) == [k \in DOMAIN rs |-> k]

EsEfInit ==
    /\ pc = "es_ef_init"
    /\ pc' = "es_ef_while"
    /\ es_dict' = EmptyDict /\ ef_dict' = EmptyDict
    /\ remaining' = AllLabels(rows)
    /\ iters' = 0
    /\ UNCHANGED <<rows, Successors, ES, EF, LS, LF, Slack, Critical, scan,
                   ls_dict, lf_dict, project_finish, path, es_writes, ls_writes>>

\* `while not remaining.empty:` and, when the loop is left, the column update.
EsEfWhile ==
    /\ pc = "es_ef_while"
    /\ IF remaining # <<>>
       THEN /\ pc' = "es_ef_for"
            /\ scan' = 1
            /\ iters' = Bump(iters)
            /\ UNCHANGED <<ES, EF>>
       ELSE /\ pc' = "ls_lf_init"
            /\ ES' = MapColumn(rows, es_dict)
            /\ EF' = MapColumn(rows, ef_dict)
            /\ UNCHANGED <<scan, iters>>
    /\ UNCHANGED <<rows, Successors, LS, LF, Slack, Critical, remaining,
                   es_dict, ef_dict, ls_dict, lf_dict, project_finish, path,
                   es_writes, ls_writes>>

\* One iteration of `for i, row in remaining.iterrows():`, or its end.
EsEfFor ==
    /\ pc = "es_ef_for"
    /\ IF scan > Len(remaining)
       THEN /\ pc' = "es_ef_while"
            /\ UNCHANGED <<scan, remaining, es_dict, ef_dict, es_writes>>
       ELSE LET i == remaining[scan]
                row == rows[i]
            IN IF PredecessorsResolved(row.Predecessors, ef_dict)
               THEN LET es == EarlyStart(row.Predecessors, ef_dict)
                        ef == EarlyFinish(es, row.Duration)
                    IN /\ es_dict' = Put(es_dict, row.Task, es)
                       /\ ef_dict' = Put(ef_dict, row.Task, ef)
                       /\ remaining' = Drop(remaining, i)
                       /\ es_writes' =
                              [es_writes EXCEPT ![row.Task] = @ + 1]
                       /\ pc' = "es_ef_while"
                       /\ UNCHANGED scan
               ELSE /\ scan' = scan + 1
                    /\ UNCHANGED <<pc, remaining, es_dict, ef_dict, es_writes>>
    /\ UNCHANGED <<rows, Successors, ES, EF, LS, LF, Slack, Critical,
                   ls_dict, lf_dict, project_finish, path, iters, ls_writes>>

----------------------------------------------------------------------------
\* calculate_ls_lf

\* all(s in ls_dict for s in row["Successors"])
SuccessorsResolved(succs, ls) == Range(succs) \subseteq DOMAIN ls

\* Mutant of LateFinish: max() in place of min().
LateFinishMax(succs, ls, finish) ==
    IF succs # <<>> THEN Max({ls[s] : s \in Range(succs)}) ELSE finish

\* lf = min([ls_dict[s] for s in row["Successors"]]) if row["Successors"]
\*      else project_finish
LateFinish(succs, ls, finish) ==
    IF succs # <<>> THEN Min({ls[s] : s \in Range(succs)}) ELSE finish

\* ls = lf - row["Duration"]
LateStart(lf, duration) == lf - duration

\* Series.max() of an empty column is the float nan.
NaN == "NaN"

\* Mutant of ProjectFinish: min() in place of max().
ProjectFinishMin(ef_column) ==
    IF ef_column = <<>> THEN NaN ELSE Min(Range(ef_column))

\* project_finish = df["EF"].max()
ProjectFinish(ef_column) ==
    IF ef_column = <<>> THEN NaN ELSE Max(Range(ef_column))

\* lf_dict after the loop that initialises the terminal tasks.
TerminalSeed(rs, succ_column, finish) ==
    [a \in {rs[k].Task : k \in {j \in DOMAIN rs : succ_column[j] = <<>>}}
        |-> finish]

LsLfInit ==
    /\ pc = "ls_lf_init"
    /\ pc' = "ls_lf_while"
    /\ ls_dict' = EmptyDict
    /\ project_finish' = ProjectFinish(EF)
    /\ lf_dict' = TerminalSeed(rows, Successors, ProjectFinish(EF))
    /\ remaining' = AllLabels(rows)
    /\ iters' = 0
    /\ UNCHANGED <<rows, Successors, ES, EF, LS, LF, Slack, Critical, scan,
                   es_dict, ef_dict, path, es_writes, ls_writes>>

LsLfWhile ==
    /\ pc = "ls_lf_while"
    /\ IF remaining # <<>>
       THEN /\ pc' = "ls_lf_for"
            /\ scan' = 1
            /\ iters' = Bump(iters)
            /\ UNCHANGED <<LS, LF>>
       ELSE /\ pc' = "slack"
            /\ LF' = MapColumn(rows, lf_dict)
            /\ LS' = MapColumn(rows, ls_dict)
            /\ UNCHANGED <<scan, iters>>
    /\ UNCHANGED <<rows, Successors, ES, EF, Slack, Critical, remaining,
                   es_dict, ef_dict, ls_dict, lf_dict, project_finish, path,
                   es_writes, ls_writes>>

LsLfFor ==
    /\ pc = "ls_lf_for"
    /\ IF scan > Len(remaining)
       THEN /\ pc' = "ls_lf_while"
            /\ UNCHANGED <<scan, remaining, ls_dict, lf_dict, ls_writes>>
       ELSE LET i == remaining[scan]
                row == rows[i]
            IN IF SuccessorsResolved(Successors[i], ls_dict)
               THEN LET lf == LateFinish(Successors[i], ls_dict, project_finish)
                        ls == LateStart(lf, row.Duration)
                    IN /\ lf_dict' = Put(lf_dict, row.Task, lf)
                       /\ ls_dict' = Put(ls_dict, row.Task, ls)
                       /\ remaining' = Drop(remaining, i)
                       /\ ls_writes' =
                              [ls_writes EXCEPT ![row.Task] = @ + 1]
                       /\ pc' = "ls_lf_while"
                       /\ UNCHANGED scan
               ELSE /\ scan' = scan + 1
                    /\ UNCHANGED <<pc, remaining, ls_dict, lf_dict, ls_writes>>
    /\ UNCHANGED <<rows, Successors, ES, EF, LS, LF, Slack, Critical,
                   es_dict, ef_dict, project_finish, path, iters, es_writes>>

----------------------------------------------------------------------------
\* calculate_slack, print_critical_path

\* Mutant of SlackColumn: the operands exchanged.
SlackColumnReversed(ls_column, es_column) ==
    [k \in DOMAIN ls_column |-> es_column[k] - ls_column[k]]

\* df["Slack"] = df["LS"] - df["ES"]
SlackColumn(ls_column, es_column) ==
    [k \in DOMAIN ls_column |-> ls_column[k] - es_column[k]]

\* Mutant of CriticalColumn: the comparison inverted.
CriticalColumnInverted(slack_column) ==
    [k \in DOMAIN slack_column |-> slack_column[k] # 0]

\* df["Critical"] = df["Slack"] == 0
CriticalColumn(slack_column) ==
    [k \in DOMAIN slack_column |-> slack_column[k] = 0]

\* df[df["Critical"]]["Task"].tolist()
RECURSIVE CriticalTasks(_, _, _)
CriticalTasks(rs, critical_column, k) ==
    IF k > Len(rs) THEN <<>>
    ELSE (IF critical_column[k] THEN <<rs[k].Task>> ELSE <<>>)
         \o CriticalTasks(rs, critical_column, k + 1)

CalculateSlack ==
    /\ pc = "slack"
    /\ pc' = "path"
    /\ Slack' = SlackColumn(LS, ES)
    /\ Critical' = CriticalColumn(SlackColumn(LS, ES))
    /\ UNCHANGED <<rows, Successors, ES, EF, LS, LF, remaining, scan, es_dict,
                   ef_dict, ls_dict, lf_dict, project_finish, path, iters,
                   es_writes, ls_writes>>

PrintCriticalPath ==
    /\ pc = "path"
    /\ pc' = "done"
    /\ path' = CriticalTasks(rows, Critical, 1)
    /\ UNCHANGED <<rows, Successors, ES, EF, LS, LF, Slack, Critical,
                   remaining, scan, es_dict, ef_dict, ls_dict, lf_dict,
                   project_finish, iters, es_writes, ls_writes>>

----------------------------------------------------------------------------
\* Specifications

Next ==
    \/ Load
    \/ EsEfInit
    \/ EsEfWhile
    \/ EsEfFor
    \/ LsLfInit
    \/ LsLfWhile
    \/ LsLfFor
    \/ CalculateSlack
    \/ PrintCriticalPath

\* Valid acyclic inputs.
Spec == Init /\ [][Next]_vars

\* Any table of rows, valid or not.
SpecAny == InitAny /\ [][Next]_vars

\* The script is one sequential process that always takes its next step.
FairAny == InitAny /\ [][Next]_vars /\ WF_vars(Next)

----------------------------------------------------------------------------
\* What a run of the script has produced: the script has no statement that
\* raises or reports an error, it either reaches its last line with the
\* result table or is still running.
Outcome == IF pc = "done" THEN "ResultTable" ELSE "Running"

----------------------------------------------------------------------------
\* Reference values, functions of the activity set alone (row order and
\* resolution order do not enter them).

RowIndex(rs, a) == CHOOSE k \in DOMAIN rs : rs[k].Task = a
RowNamed(rs, a) == rs[RowIndex(rs, a)]

RECURSIVE EarliestFinish(_, _)
EarliestStart(rs, a) ==
    LET P == RowNamed(rs, a).Predecessors
    IN IF P = {} THEN 0 ELSE Max({EarliestFinish(rs, p) : p \in P})
EarliestFinish(rs, a) == EarliestStart(rs, a) + RowNamed(rs, a).Duration

SuccessorSet(rs, a) ==
    {rs[k].Task : k \in {j \in DOMAIN rs : a \in rs[j].Predecessors}}

InForward == pc \in {"es_ef_while", "es_ef_for"}
InBackward == pc \in {"ls_lf_while", "ls_lf_for"}
AfterForward == pc \in {"ls_lf_init", "ls_lf_while", "ls_lf_for", "slack", "path", "done"}
AfterBackward == pc \in {"slack", "path", "done"}

----------------------------------------------------------------------------
\* C1: an input whose predecessor relation has a cycle eventually ends with
\* a CycleError outcome (the run does not go on for ever and no result table
\* is produced).
C1_CycleEndsInCycleError == HasCycle(rows) => <>(Outcome = "CycleError")

\* C2: an input with a predecessor name that names no row has the outcome
\* UnknownPredecessor as soon as loading is over, before the forward pass.
C2_DanglingRaisedAtLoad ==
    (HasDangling(rows) /\ pc # "load") => Outcome = "UnknownPredecessor"

\* C3: an input with two rows of the same task name has the outcome
\* DuplicateActivity before any ES/EF/LS/LF value is computed, and no result
\* table.
C3_DuplicateRaisedBeforeCompute ==
    (HasDuplicate(rows) /\ (DOMAIN es_dict # {} \/ pc = "done"))
        => Outcome = "DuplicateActivity"

C5_ProjectFinishIsMaxEFAndMaxLF ==
    rows # <<>> =>
        /\ (InBackward \/ AfterBackward) => project_finish = Max(Range(EF))
        /\ AfterBackward => project_finish = Max(Range(LF))

C5_Witness ==
    /\ pc = "done"
    /\ \E j, k \in DOMAIN rows : EF[j] # EF[k]
    /\ \E k \in DOMAIN rows : LF[k] < project_finish

C7_PathOrderedByES ==
    pc = "done" =>
        /\ Range(path) = {rows[k].Task : k \in {j \in DOMAIN rows : Slack[j] = 0}}
        /\ \A m, n \in DOMAIN path : m < n =>
              LET j == RowIndex(rows, path[m])
                  k == RowIndex(rows, path[n])
              IN ES[j] < ES[k] \/ (ES[j] = ES[k] /\ j < k)

\* C8: for a valid acyclic input in any row order, every value the forward
\* pass assigns is the one fixed by the activity set (ES = 0 without
\* predecessors, else the maximum EF of the predecessors; EF = ES +
\* duration), and the ES/EF columns hold these values and satisfy the same
\* recurrence.
C8_ForwardPassValues ==
    /\ \A a \in DOMAIN ef_dict :
          /\ a \in DOMAIN es_dict
          /\ es_dict[a] = EarliestStart(rows, a)
          /\ ef_dict[a] = es_dict[a] + RowNamed(rows, a).Duration
    /\ AfterForward =>
          \A k \in DOMAIN rows :
              /\ ES[k] = IF rows[k].Predecessors = {} THEN 0
                         ELSE Max({EF[RowIndex(rows, p)] : p \in rows[k].Predecessors})
              /\ EF[k] = ES[k] + rows[k].Duration
              /\ ES[k] = es_dict[rows[k].Task]
              /\ EF[k] = ef_dict[rows[k].Task]

C8_Witness ==
    /\ pc = "done"
    /\ \E k \in DOMAIN rows :
          /\ \E p, q \in rows[k].Predecessors :
                EF[RowIndex(rows, p)] # EF[RowIndex(rows, q)]
          /\ \E j \in DOMAIN rows : j > k /\ rows[j].Task \in rows[k].Predecessors

\* C9: for a valid acyclic input, the Successors of a row are exactly the
\* tasks that list it as a predecessor; every value the backward pass assigns
\* is LF = project_finish without successors, else the minimum LS of the
\* successors, and LS = LF - duration; the LF seeded for a terminal task is
\* the LF it keeps.
C9_BackwardPassValues ==
    /\ pc \notin {"load"} =>
          \A k \in DOMAIN rows :
              Range(Successors[k]) = SuccessorSet(rows, rows[k].Task)
    /\ (InBackward \/ AfterBackward) =>
          /\ \A k \in DOMAIN rows :
                Successors[k] = <<>> =>
                    /\ rows[k].Task \in DOMAIN lf_dict
                    /\ lf_dict[rows[k].Task] = project_finish
          /\ \A a \in DOMAIN ls_dict :
                LET S == SuccessorSet(rows, a)
                IN /\ a \in DOMAIN lf_dict
                   /\ S \subseteq DOMAIN ls_dict
                   /\ lf_dict[a] = IF S = {} THEN project_finish
                                   ELSE Min({ls_dict[s] : s \in S})
                   /\ ls_dict[a] = lf_dict[a] - RowNamed(rows, a).Duration
    /\ AfterBackward =>
          \A k \in DOMAIN rows :
              /\ LF[k] = lf_dict[rows[k].Task]
              /\ LS[k] = ls_dict[rows[k].Task]
              /\ LS[k] = LF[k] - rows[k].Duration

C9_Witness ==
    /\ pc = "done"
    /\ \E k \in DOMAIN rows :
          \E s, t \in Range(Successors[k]) :
              LS[RowIndex(rows, s)] # LS[RowIndex(rows, t)]
    /\ \E k \in DOMAIN rows : Successors[k] = <<>> /\ LF[k] = project_finish

\* C10: for a valid acyclic input of n rows, every iteration of the `while`
\* loop of either pass removes exactly one row (its `for` loop always finds a
\* row to resolve), a task is resolved only after all its predecessors
\* (forward) or successors (backward), and each pass ends after exactly n
\* iterations with every task assigned exactly once.
C10_OneResolutionPerIteration ==
    /\ pc \in {"es_ef_while", "ls_lf_while"} =>
          Len(remaining) = Len(rows) - iters
    /\ pc \in {"es_ef_for", "ls_lf_for"} =>
          /\ Len(remaining) = Len(rows) - iters + 1
          /\ scan <= Len(remaining)
    /\ \A a \in DOMAIN ef_dict :
          RowNamed(rows, a).Predecessors \subseteq DOMAIN ef_dict
    /\ \A a \in DOMAIN ls_dict : SuccessorSet(rows, a) \subseteq DOMAIN ls_dict
    /\ \A k \in DOMAIN rows :
          /\ es_writes[rows[k].Task] =
                 IF rows[k].Task \in DOMAIN es_dict THEN 1 ELSE 0
          /\ ls_writes[rows[k].Task] =
                 IF rows[k].Task \in DOMAIN ls_dict THEN 1 ELSE 0
    /\ pc = "ls_lf_init" =>
          /\ iters = Len(rows)
          /\ DOMAIN es_dict = TaskSet(rows)
    /\ AfterBackward =>
          /\ iters = Len(rows)
          /\ DOMAIN ls_dict = TaskSet(rows)

C10_Witness ==
    /\ pc = "ls_lf_for"
    /\ scan > 1
    /\ Len(remaining) >= 2
    /\ iters >= 2

=============================================================================
